---------------------------- MODULE Spec2Model ----------------------------
(***************************************************************************)
(* The mopcare API gateway (src/gateway-fiber/main.go): the response       *)
(* cache, the metrics registry and the proxyHandler pipeline, as a state   *)
(* machine of concurrent requests.                                         *)
(*                                                                         *)
(* Time is counted in minutes.  Strings the code inspects (paths, methods, *)
(* cache keys) are sequences of one-character strings, so that             *)
(* strings.HasPrefix, strings.Contains and fmt.Sprintf are computed the    *)
(* way the code computes them.                                             *)
(***************************************************************************)
EXTENDS Integers, Sequences, FiniteSets, TLC

(***************************************************************************)
(* Bounds of the model.                                                    *)
(***************************************************************************)
NReq == 2        \* request slots: the requests in flight at once
MaxTime == 6     \* the clock runs from 0 to MaxTime minutes
MaxSegs == 2     \* path segments of the resolver's input paths
NOps == 2        \* backend handlers in flight at once
MaxUsers == 2    \* rows ever inserted into users
MaxCourses == 2  \* rows ever inserted into courses
MaxEnrollments == 2   \* values ever drawn from the enrollments' id sequence
MaxSeries == 3   \* rows ever inserted into series

(***************************************************************************)
(* Program constants.                                                      *)
(***************************************************************************)
ttl == 5         \* NewCache: 5 * time.Minute

Req == 1..NReq

(***************************************************************************)
(* Strings.                                                                *)
(***************************************************************************)
sCourses     == <<"/","c","o","u","r","s","e","s">>
sSeries      == <<"/","s","e","r","i","e","s">>
sUsers       == <<"/","u","s","e","r","s">>
sEnrollments == <<"/","e","n","r","o","l","l","m","e","n","t","s">>
s42          == <<"/","4","2">>
sUnknown     == <<"/","u","n","k","n","o","w","n">>
sUser        == <<"/","u","s","e","r">>
sX           == <<"x">>
sGET         == <<"G","E","T">>
sPOST        == <<"P","O","S","T">>
sColon       == <<":">>
sHealth      == <<"/","h","e","a","l","t","h">>
sMetrics     == <<"/","m","e","t","r","i","c","s">>
sQueryA      == <<"?","p","a","g","e","=","1">>
sQueryB      == <<"?","p","a","g","e","=","2">>

\* strings.HasPrefix(s, prefix)
HasPrefix(s, prefix) ==
    /\ Len(s) >= Len(prefix)
    /\ SubSeq(s, 1, Len(prefix)) = prefix

\* c.Path(): the request URI up to its query string
RECURSIVE PathOf(_)
PathOf(uri) ==
    IF uri = << >> \/ Head(uri) = "?" THEN << >>
    ELSE <<Head(uri)>> \o PathOf(Tail(uri))

\* strings.Contains(s, substr)
Contains(s, substr) ==
    \E i \in 0..(Len(s) - Len(substr)) : SubSeq(s, i + 1, i + Len(substr)) = substr

(***************************************************************************)
(* Inputs.                                                                 *)
(***************************************************************************)
Methods == {sGET, sPOST}

\* The paths requests of the gateway carry.
GatewayPaths == {sCourses, sUsers \o s42 \o sEnrollments, sUnknown}

\* Request URIs with and without a query string.
KeyURIs == {sCourses, sCourses \o sQueryA, sCourses \o sQueryB, sUsers \o s42}

\* The paths of the gateway's own routes beside a proxied one.
MetricsPaths == {sCourses, sUnknown, sHealth, sMetrics}

\* Values of a request header (Accept).
DefaultAccept == "*/*"
Accepts == {DefaultAccept, "application/json"}

\* The segments the resolver's input paths are built from.
Segs == {sCourses, sSeries, sUsers, sEnrollments, s42, sUnknown, sUser, sX}

RECURSIVE PathsOf(_)
PathsOf(n) ==
    IF n = 0 THEN {<< >>}
    ELSE LET shorter == PathsOf(n - 1)
         IN  shorter \cup {p \o s : p \in shorter, s \in Segs}

ResolverPaths == (PathsOf(MaxSegs) \ {<< >>}) \cup GatewayPaths

Bodies == {"b1", "b2"}

\* The process environment, read with os.Getenv ("" is unset).
Envs ==
    { [RENDER |-> "", COURSE_SERVICE_URL |-> "", USER_SERVICE_URL |-> "",
       ENROLLMENT_SERVICE_URL |-> ""],
      [RENDER |-> "", COURSE_SERVICE_URL |-> "http://courses:8081",
       USER_SERVICE_URL |-> "", ENROLLMENT_SERVICE_URL |-> ""],
      [RENDER |-> "true", COURSE_SERVICE_URL |-> "", USER_SERVICE_URL |-> "",
       ENROLLMENT_SERVICE_URL |-> ""] }

VARIABLES
    env,        \* the process environment
    now,        \* time.Now(), in minutes
    store,      \* Cache.store: key -> CacheEntry, a sync.Map
    metrics,    \* Metrics.TotalRequests, CacheHits, CacheMisses
    mu,         \* Metrics.mu: the request holding the write lock (or 0), and
                \* the number of read locks held
    req,        \* the requests: proxyHandler's locals, position and response
    db,         \* the database of the backends: its tables and sequences
    op          \* the backend handlers in flight: locals, position, status

vars == <<env, now, store, metrics, mu, req, db, op>>

\* The state of the gateway process.
gateway == <<env, now, store, metrics, mu, req>>

(***************************************************************************)
(* Cache.                                                                  *)
(***************************************************************************)
\* CacheEntry{Data, ExpiresAt}
CacheEntry(data, expiresAt) == [Data |-> data, ExpiresAt |-> expiresAt]

NoEntry == [Data |-> "", ExpiresAt |-> -1]

\* sync.Map.Store
MapStore(m, key, val) == [k \in DOMAIN m \cup {key} |-> IF k = key THEN val ELSE m[k]]

\* sync.Map.Delete
MapDelete(m, key) == [k \in DOMAIN m \ {key} |-> m[k]]

\* An expiry test that still passes at the instant of expiry.
BeforeOrAt(t, expiresAt) == t <= expiresAt

\* time.Now().Before(entry.ExpiresAt)
Before(t, expiresAt) == t < expiresAt

\* A key made of the path alone.
CacheKeyPathOnly(method, path) == path

\* fmt.Sprintf("%s:%s", method, path)
CacheKey(method, path) == method \o sColon \o path

(***************************************************************************)
(* Upstream resolver: proxyHandler's if-chain over the path.               *)
(***************************************************************************)
\* os.Getenv(name) with its default
CourseServiceURL(e) ==
    IF e.COURSE_SERVICE_URL = "" THEN "http://localhost:8081" ELSE e.COURSE_SERVICE_URL

UserServiceURL(e) ==
    IF e.USER_SERVICE_URL = "" THEN "http://localhost:8082" ELSE e.USER_SERVICE_URL

EnrollmentServiceURL(e) ==
    IF e.ENROLLMENT_SERVICE_URL = "" THEN "http://localhost:8083"
    ELSE e.ENROLLMENT_SERVICE_URL

NotFound == ""

\* The if-chain with the enrollment rule tested first.
ResolveTargetEnrollmentFirst(path, e) ==
    IF Contains(path, sEnrollments)
      THEN EnrollmentServiceURL(e)
    ELSE IF HasPrefix(path, sCourses) \/ HasPrefix(path, sSeries)
      THEN CourseServiceURL(e)
    ELSE IF HasPrefix(path, sUsers)
      THEN UserServiceURL(e)
    ELSE NotFound

\* The if-chain with the course backend as the final else.
ResolveTargetCourseDefault(path, e) ==
    IF HasPrefix(path, sCourses) \/ HasPrefix(path, sSeries)
      THEN CourseServiceURL(e)
    ELSE IF HasPrefix(path, sUsers) /\ ~Contains(path, sEnrollments)
      THEN UserServiceURL(e)
    ELSE IF Contains(path, sEnrollments)
      THEN EnrollmentServiceURL(e)
    ELSE CourseServiceURL(e)

\* targetURL, or NotFound when the handler answers 404
ResolveTarget(path, e) ==
    IF HasPrefix(path, sCourses) \/ HasPrefix(path, sSeries)
      THEN CourseServiceURL(e)
    ELSE IF HasPrefix(path, sUsers) /\ ~Contains(path, sEnrollments)
      THEN UserServiceURL(e)
    ELSE IF Contains(path, sEnrollments)
      THEN EnrollmentServiceURL(e)
    ELSE NotFound

(***************************************************************************)
(* Responses.                                                              *)
(***************************************************************************)
NoHeader == "none"

\* A response: its status, its body, and the value proxyHandler has given the
\* X-Cache header with c.Set (NoHeader when it has set none).
Response(status, body, xcache) == [status |-> status, body |-> body, xcache |-> xcache]

NoResponse == Response(0, "", NoHeader)

\* What the upstream sent back: nothing yet, or a status and a body.
NoReply == [status |-> 0, body |-> ""]

\* handleMockResponse
MockResponse(method, path) ==
    IF method = sGET /\ path = sCourses THEN [status |-> 200, body |-> "mock courses"]
    ELSE IF method = sPOST /\ path = sCourses THEN [status |-> 201, body |-> "mock course created"]
    ELSE IF method = sGET /\ path = sUsers THEN [status |-> 200, body |-> "mock users"]
    ELSE IF method = sPOST /\ path = sUsers THEN [status |-> 201, body |-> "mock user created"]
    ELSE [status |-> 200, body |-> "mock response"]

(***************************************************************************)
(* Requests.                                                               *)
(***************************************************************************)
NoSnapshot == [total_requests |-> -1, cache_hits |-> -1, cache_misses |-> -1]

IdleRequest ==
    [pc        |-> "idle",
     method    |-> << >>,     \* c.Method()
     uri       |-> << >>,     \* the request URI as received
     accept    |-> "",        \* the request's Accept header
     path      |-> << >>,     \* c.Path()
     targetURL |-> NotFound,
     cacheKey  |-> << >>,
     snap      |-> NoSnapshot, \* what the /metrics handler has read
     reg       |-> 0,          \* the counter value an increment has loaded
     entry     |-> NoEntry,    \* the entry Cache.Get has loaded
     gets      |-> 0,          \* calls of Cache.Get made
     calls     |-> << >>,      \* upstream calls made
     reply     |-> NoReply,    \* what the upstream answered
     resp      |-> NoResponse]

(***************************************************************************)
(* The database (src/database/init.sql) and the handlers of the backends.  *)
(* A row of users or courses is its id; the other columns take no part in  *)
(* what is modelled.  Each *_id_seq is the last value its SERIAL column    *)
(* has drawn.                                                              *)
(***************************************************************************)
Ops == 1..NOps

EmptyDB ==
    [users |-> {}, courses |-> {}, user_course_enrollments |-> {}, series |-> {},
     users_id_seq |-> 0, courses_id_seq |-> 0,
     user_course_enrollments_id_seq |-> 0, series_id_seq |-> 0]

IdleOp ==
    [pc        |-> "idle",
     user_id   |-> 0,       \* enrollment.UserID
     course_id |-> 0,       \* enrollment.CourseID, courseID
     status    |-> "",      \* enrollment.Status
     epNumber  |-> 0,       \* what getNextEpisodeNumber returned
     code      |-> 0]       \* the HTTP status of the answer

Init ==
    /\ env \in Envs
    /\ now = 0
    /\ store = [k \in {} |-> NoEntry]
    /\ metrics = [TotalRequests |-> 0, CacheHits |-> 0, CacheMisses |-> 0]
    /\ mu = [writer |-> 0, readers |-> 0]
    /\ req = [r \in Req |-> IdleRequest]
    /\ db = EmptyDB
    /\ op = [o \in Ops |-> IdleOp]

(***************************************************************************)
(* Metrics: each Increment* is Lock; counter++; Unlock.  The first step    *)
(* takes the lock and loads the counter, the second stores the sum and     *)
(* releases the lock.                                                      *)
(***************************************************************************)
\* A lock that excludes nobody.
CanLockAlways(m) == TRUE

\* sync.RWMutex.Lock can be taken: no writer and no reader holds it
CanLock(m) == m.writer = 0 /\ m.readers = 0

\* m.mu.Lock()
MuLock(r) ==
    /\ CanLock(mu)
    /\ mu' = [mu EXCEPT !.writer = r]

\* m.mu.Unlock()
MuUnlock(r) == mu' = [mu EXCEPT !.writer = 0]

(***************************************************************************)
(* The routes of main, in the order of their registration: GET /health,    *)
(* GET /metrics, then proxyHandler for every request that matched neither  *)
(* (CaseSensitive and StrictRouting: the path is compared as it is).       *)
(***************************************************************************)
\* Routes that match whatever the method.
DispatchAnyMethod(method, path) ==
    IF path = sHealth THEN "health"
    ELSE IF path = sMetrics THEN "metrics"
    ELSE "proxyHandler"

Dispatch(method, path) ==
    IF method = sGET /\ path = sHealth THEN "health"
    ELSE IF method = sGET /\ path = sMetrics THEN "metrics"
    ELSE "proxyHandler"

\* The request as fiber hands it to a handler.
Arrived(method, uri, accept) ==
    [IdleRequest EXCEPT !.method = method, !.uri = uri, !.accept = accept,
                        !.path = PathOf(uri)]

\* A request arrives at proxyHandler, which enters metrics.IncrementRequests.
IncrementRequestsLock(r, method, uri, accept) ==
    /\ req[r].pc = "idle"
    /\ Dispatch(method, PathOf(uri)) = "proxyHandler"
    /\ MuLock(r)
    /\ req' = [req EXCEPT ![r] = [Arrived(method, uri, accept) EXCEPT
                                    !.pc = "incRequests",
                                    !.reg = metrics.TotalRequests]]
    /\ UNCHANGED <<env, now, store, metrics, db, op>>

IncrementRequestsUnlock(r) ==
    /\ req[r].pc = "incRequests"
    /\ MuUnlock(r)
    /\ metrics' = [metrics EXCEPT !.TotalRequests = req[r].reg + 1]
    /\ req' = [req EXCEPT ![r].pc = "received", ![r].reg = 0]
    /\ UNCHANGED <<env, now, store, db, op>>

(***************************************************************************)
(* GET /health.                                                            *)
(***************************************************************************)
HealthHandler(r, method, uri, accept) ==
    /\ req[r].pc = "idle"
    /\ Dispatch(method, PathOf(uri)) = "health"
    /\ req' = [req EXCEPT ![r] = [Arrived(method, uri, accept) EXCEPT
                                    !.pc = "responded",
                                    !.resp = Response(200, "healthy", NoHeader)]]
    /\ UNCHANGED <<env, now, store, metrics, mu, db, op>>

(***************************************************************************)
(* GET /metrics: RLock; the three counters are read in the order of the    *)
(* map literal; the deferred RUnlock runs when the handler returns.        *)
(***************************************************************************)
\* sync.RWMutex.RLock can be taken: no writer holds the lock
CanRLock(m) == m.writer = 0

MetricsRLock(r, method, uri, accept) ==
    /\ req[r].pc = "idle"
    /\ Dispatch(method, PathOf(uri)) = "metrics"
    /\ CanRLock(mu)
    /\ mu' = [mu EXCEPT !.readers = @ + 1]
    /\ req' = [req EXCEPT ![r] = [Arrived(method, uri, accept) EXCEPT
                                    !.pc = "readTotalRequests"]]
    /\ UNCHANGED <<env, now, store, metrics, db, op>>

MetricsReadTotalRequests(r) ==
    /\ req[r].pc = "readTotalRequests"
    /\ req' = [req EXCEPT ![r].pc = "readCacheHits",
                          ![r].snap.total_requests = metrics.TotalRequests]
    /\ UNCHANGED <<env, now, store, metrics, mu, db, op>>

MetricsReadCacheHits(r) ==
    /\ req[r].pc = "readCacheHits"
    /\ req' = [req EXCEPT ![r].pc = "readCacheMisses",
                          ![r].snap.cache_hits = metrics.CacheHits]
    /\ UNCHANGED <<env, now, store, metrics, mu, db, op>>

MetricsReadCacheMisses(r) ==
    /\ req[r].pc = "readCacheMisses"
    /\ req' = [req EXCEPT ![r].pc = "rUnlock",
                          ![r].snap.cache_misses = metrics.CacheMisses]
    /\ UNCHANGED <<env, now, store, metrics, mu, db, op>>

\* A handler that clears the counters once it has reported them.
MetricsRUnlockReset(r) ==
    /\ req[r].pc = "rUnlock"
    /\ mu' = [mu EXCEPT !.readers = @ - 1]
    /\ metrics' = [TotalRequests |-> 0, CacheHits |-> 0, CacheMisses |-> 0]
    /\ req' = [req EXCEPT ![r].pc = "responded",
                          ![r].resp = Response(200, "metrics", NoHeader)]
    /\ UNCHANGED <<env, now, store, db, op>>

\* c.JSON(...) has written the snapshot; the deferred m.mu.RUnlock() runs
MetricsRUnlock(r) ==
    /\ req[r].pc = "rUnlock"
    /\ mu' = [mu EXCEPT !.readers = @ - 1]
    /\ req' = [req EXCEPT ![r].pc = "responded",
                          ![r].resp = Response(200, "metrics", NoHeader)]
    /\ UNCHANGED <<env, now, store, metrics, db, op>>

\* The hit counted on the miss counter.
IncrementCacheHitsUnlockAsMiss(r) ==
    /\ req[r].pc = "incCacheHits"
    /\ MuUnlock(r)
    /\ metrics' = [metrics EXCEPT !.CacheMisses = @ + 1]
    /\ req' = [req EXCEPT ![r].pc = "responded", ![r].reg = 0,
                          ![r].resp = Response(200, req[r].entry.Data, "HIT")]
    /\ UNCHANGED <<env, now, store, db, op>>

IncrementCacheHitsLock(r) ==
    /\ req[r].pc = "hit"
    /\ MuLock(r)
    /\ req' = [req EXCEPT ![r].pc = "incCacheHits", ![r].reg = metrics.CacheHits]
    /\ UNCHANGED <<env, now, store, metrics, db, op>>

\* ... Unlock; c.Set("X-Cache", "HIT"); return c.SendString(cachedData)
IncrementCacheHitsUnlock(r) ==
    /\ req[r].pc = "incCacheHits"
    /\ MuUnlock(r)
    /\ metrics' = [metrics EXCEPT !.CacheHits = req[r].reg + 1]
    /\ req' = [req EXCEPT ![r].pc = "responded", ![r].reg = 0,
                          ![r].resp = Response(200, req[r].entry.Data, "HIT")]
    /\ UNCHANGED <<env, now, store, db, op>>

\* The miss counted, and the lock kept until the request is answered.
IncrementCacheMissesUnlockHeld(r) ==
    /\ req[r].pc = "incCacheMisses"
    /\ metrics' = [metrics EXCEPT !.CacheMisses = req[r].reg + 1]
    /\ req' = [req EXCEPT ![r].pc = "forward", ![r].reg = 0,
                          ![r].resp.xcache = "MISS"]
    /\ UNCHANGED <<env, now, store, mu, db, op>>

\* The miss not counted.
IncrementCacheMissesUnlockNoCount(r) ==
    /\ req[r].pc = "incCacheMisses"
    /\ MuUnlock(r)
    /\ metrics' = metrics
    /\ req' = [req EXCEPT ![r].pc = "forward", ![r].reg = 0,
                          ![r].resp.xcache = "MISS"]
    /\ UNCHANGED <<env, now, store, db, op>>

IncrementCacheMissesLock(r) ==
    /\ req[r].pc = "miss"
    /\ MuLock(r)
    /\ req' = [req EXCEPT ![r].pc = "incCacheMisses", ![r].reg = metrics.CacheMisses]
    /\ UNCHANGED <<env, now, store, metrics, db, op>>

\* ... Unlock; c.Set("X-Cache", "MISS")
IncrementCacheMissesUnlock(r) ==
    /\ req[r].pc = "incCacheMisses"
    /\ MuUnlock(r)
    /\ metrics' = [metrics EXCEPT !.CacheMisses = req[r].reg + 1]
    /\ req' = [req EXCEPT ![r].pc = "forward", ![r].reg = 0,
                          ![r].resp.xcache = "MISS"]
    /\ UNCHANGED <<env, now, store, db, op>>

(***************************************************************************)
(* proxyHandler after IncrementRequests: the RENDER branch, the resolver   *)
(* and the method test.                                                    *)
(***************************************************************************)
\* A method test that lets every method through.
IsGetAlways(method) == TRUE

\* method == "GET"
IsGet(method) == method = sGET

\* The routing if-chain run before the RENDER test.
RouteResolveFirst(r) ==
    /\ req[r].pc = "received"
    /\ LET method == req[r].method
           path == req[r].path
           targetURL == ResolveTarget(path, env)
           mock == MockResponse(method, path)
       IN  req' =
             IF targetURL = NotFound
               THEN [req EXCEPT ![r].pc = "responded",
                                ![r].resp = Response(404, "Service not found", NoHeader)]
             ELSE IF env.RENDER # ""
               THEN [req EXCEPT ![r].pc = "responded",
                                ![r].resp = Response(mock.status, mock.body, NoHeader)]
             ELSE IF IsGet(method)
               THEN [req EXCEPT ![r].pc = "cacheGet", ![r].targetURL = targetURL,
                                ![r].cacheKey = CacheKey(method, path)]
             ELSE [req EXCEPT ![r].pc = "forward", ![r].targetURL = targetURL,
                              ![r].cacheKey = CacheKey(method, path)]
    /\ UNCHANGED <<env, now, store, metrics, mu, db, op>>

Route(r) ==
    /\ req[r].pc = "received"
    /\ LET method == req[r].method
           path == req[r].path
           targetURL == ResolveTarget(path, env)
           mock == MockResponse(method, path)
       IN  req' =
             IF env.RENDER # ""
               THEN [req EXCEPT ![r].pc = "responded",
                                ![r].resp = Response(mock.status, mock.body, NoHeader)]
             ELSE IF targetURL = NotFound
               THEN [req EXCEPT ![r].pc = "responded",
                                ![r].resp = Response(404, "Service not found", NoHeader)]
             ELSE IF IsGet(method)
               THEN [req EXCEPT ![r].pc = "cacheGet", ![r].targetURL = targetURL,
                                ![r].cacheKey = CacheKey(method, path)]
             ELSE [req EXCEPT ![r].pc = "forward", ![r].targetURL = targetURL,
                              ![r].cacheKey = CacheKey(method, path)]
    /\ UNCHANGED <<env, now, store, metrics, mu, db, op>>

(***************************************************************************)
(* Cache.Get(cacheKey), called by proxyHandler: Load, the expiry test,     *)
(* Delete.                                                                 *)
(***************************************************************************)
CacheGetLoad(r) ==
    /\ req[r].pc = "cacheGet"
    /\ LET key == req[r].cacheKey
       IN  req' =
             IF key \in DOMAIN store
               THEN [req EXCEPT ![r].pc = "cacheTest", ![r].entry = store[key],
                                ![r].gets = @ + 1]
               ELSE [req EXCEPT ![r].pc = "miss", ![r].gets = @ + 1]
    /\ UNCHANGED <<env, now, store, metrics, mu, db, op>>

CacheGetTest(r) ==
    /\ req[r].pc = "cacheTest"
    /\ req' =
         IF Before(now, req[r].entry.ExpiresAt)
           THEN [req EXCEPT ![r].pc = "hit"]
           ELSE [req EXCEPT ![r].pc = "cacheDelete", ![r].entry = NoEntry]
    /\ UNCHANGED <<env, now, store, metrics, mu, db, op>>

CacheGetDelete(r) ==
    /\ req[r].pc = "cacheDelete"
    /\ store' = MapDelete(store, req[r].cacheKey)
    /\ req' = [req EXCEPT ![r].pc = "miss"]
    /\ UNCHANGED <<env, now, metrics, mu, db, op>>

\* Cache.Set(key, data)
CacheSet(key, data) ==
    /\ store' = MapStore(store, key, CacheEntry(data, now + ttl))
    /\ UNCHANGED <<env, now, metrics, mu, req, db, op>>

(***************************************************************************)
(* proxy.Do(c, targetURL+path): the call goes out, then the upstream       *)
(* answers or the transport fails.                                         *)
(***************************************************************************)
UpstreamStatuses == {200, 500}

ProxyDo(r) ==
    /\ req[r].pc = "forward"
    /\ req' = [req EXCEPT ![r].pc = "upstream",
                          ![r].calls = Append(@, [base |-> req[r].targetURL,
                                                  path |-> req[r].path,
                                                  method |-> req[r].method])]
    /\ UNCHANGED <<env, now, store, metrics, mu, db, op>>

\* Every upstream error reported as 502.
ProxyResponseMasked(reply, xcache) ==
    Response(IF reply.status = 200 THEN 200 ELSE 502, reply.body, xcache)

\* proxy.Do writes the upstream's status and body to the response.  The header
\* field keeps what proxyHandler set before the call; what fiber's proxy does
\* to headers already set is not code of this repository.
ProxyResponse(reply, xcache) == Response(reply.status, reply.body, xcache)

\* Whatever the upstream answers to a GET is stored under the cache key.
UpstreamReplyStoreAll(r, status, body) ==
    /\ req[r].pc = "upstream"
    /\ LET reply == [status |-> status, body |-> body]
       IN  req' = [req EXCEPT ![r].pc = "responded", ![r].reply = reply,
                             ![r].resp = ProxyResponse(reply, req[r].resp.xcache)]
    /\ store' = IF IsGet(req[r].method)
                  THEN MapStore(store, req[r].cacheKey, CacheEntry(body, now + ttl))
                  ELSE store
    /\ UNCHANGED <<env, now, metrics, mu, db, op>>

UpstreamReply(r, status, body) ==
    /\ req[r].pc = "upstream"
    /\ LET reply == [status |-> status, body |-> body]
       IN  req' = [req EXCEPT ![r].pc = "responded", ![r].reply = reply,
                             ![r].resp = ProxyResponse(reply, req[r].resp.xcache)]
    /\ UNCHANGED <<env, now, store, metrics, mu, db, op>>

\* A failed call is made again.
UpstreamFailRetry(r) ==
    /\ req[r].pc = "upstream"
    /\ req' = [req EXCEPT ![r].pc = "forward"]
    /\ UNCHANGED <<env, now, store, metrics, mu, db, op>>

\* proxy.Do returns the transport's error: fiber answers 500 with its text
UpstreamFail(r) ==
    /\ req[r].pc = "upstream"
    /\ req' = [req EXCEPT ![r].pc = "responded", ![r].resp.status = 500,
                          ![r].resp.body = "proxy error"]
    /\ UNCHANGED <<env, now, store, metrics, mu, db, op>>

\* The clock advances.
Tick ==
    /\ now < MaxTime
    /\ now' = now + 1
    /\ UNCHANGED <<env, store, metrics, mu, req, db, op>>

(***************************************************************************)
(* The backends: src/main.go and src/services/*/main.go over the schema of *)
(* src/database/init.sql.  No handler opens a transaction, so each SQL     *)
(* statement is a step of its own and other handlers run between the       *)
(* statements of one handler.  A handler that issues one statement is one  *)
(* action; its answer is not kept.                                          *)
(***************************************************************************)
UserIDs == 1..MaxUsers
CourseIDs == 1..MaxCourses
EnrollmentIDs == 1..MaxEnrollments
SeriesIDs == 1..MaxSeries

\* The values of status a request body carries: absent, accepted, refused.
Statuses == {"", "enrolled", "paused"}

\* The request bodies of POST /users/:id/enrollments, after BindJSON.
Enrollments ==
    [UserID : 0..MaxUsers, CourseID : 0..MaxCourses, Status : Statuses]

Answer(o, code) == [op EXCEPT ![o].pc = "responded", ![o].code = code]

Free(o) == op[o].pc \in {"idle", "responded"}

\* INSERT INTO users ... RETURNING id, of createUser.
CreateUser ==
    /\ db.users_id_seq < MaxUsers
    /\ db' = [db EXCEPT !.users_id_seq = @ + 1,
                        !.users = @ \cup {db.users_id_seq + 1}]
    /\ UNCHANGED <<gateway, op>>

\* The rows of user_course_enrollments that ON DELETE CASCADE leaves.
CascadeUser(id) == {e \in db.user_course_enrollments : e.user_id # id}

\* DELETE FROM users WHERE id = $1, of deleteUser.
DeleteUser(id) ==
    /\ db' = [db EXCEPT !.users = @ \ {id},
                        !.user_course_enrollments = CascadeUser(id)]
    /\ UNCHANGED <<gateway, op>>

\* INSERT INTO courses ... RETURNING id, of createCourse.
CreateCourse ==
    /\ db.courses_id_seq < MaxCourses
    /\ db' = [db EXCEPT !.courses_id_seq = @ + 1,
                        !.courses = @ \cup {db.courses_id_seq + 1}]
    /\ UNCHANGED <<gateway, op>>

\* DELETE FROM courses WHERE id = $1, of deleteCourse: series and
\* user_course_enrollments both reference courses ON DELETE CASCADE.
DeleteCourse(id) ==
    /\ db' = [db EXCEPT
                !.courses = @ \ {id},
                !.series = {s \in @ : s.course_id # id},
                !.user_course_enrollments = {e \in @ : e.course_id # id}]
    /\ UNCHANGED <<gateway, op>>

\* createUserEnrollment up to its first statement: the checks of the URL
\* parameter and of the body, then SELECT EXISTS(... FROM users ...).
\* wellFormed is FALSE when Atoi or BindJSON fails.
EnrollCheckUser(o, wellFormed, id, enrollment) ==
    /\ Free(o)
    /\ IF \/ ~wellFormed
          \/ enrollment.UserID = 0
          \/ enrollment.CourseID = 0
          \/ enrollment.Status = ""
          \/ enrollment.UserID # id
          \/ enrollment.Status \notin {"enrolled", "completed"}
          \/ enrollment.UserID \notin db.users
       THEN op' = [op EXCEPT ![o] = [IdleOp EXCEPT !.pc = "responded",
                                                   !.code = 400]]
       ELSE op' = [op EXCEPT ![o] = [IdleOp EXCEPT
                        !.pc = "checkCourse",
                        !.user_id = enrollment.UserID,
                        !.course_id = enrollment.CourseID,
                        !.status = enrollment.Status]]
    /\ UNCHANGED <<gateway, db>>

\* SELECT EXISTS(SELECT 1 FROM courses WHERE id = $1)
EnrollCheckCourse(o) ==
    /\ op[o].pc = "checkCourse"
    /\ IF op[o].course_id \in db.courses
       THEN op' = [op EXCEPT ![o].pc = "checkEnrollment"]
       ELSE op' = Answer(o, 400)
    /\ UNCHANGED <<gateway, db>>

\* UNIQUE(user_id, course_id)
UniqueViolation(user_id, course_id) ==
    \E e \in db.user_course_enrollments :
        e.user_id = user_id /\ e.course_id = course_id

\* SELECT EXISTS(SELECT 1 FROM user_course_enrollments WHERE ...)
EnrollCheckEnrollment(o) ==
    /\ op[o].pc = "checkEnrollment"
    /\ IF UniqueViolation(op[o].user_id, op[o].course_id)
       THEN op' = Answer(o, 400)
       ELSE op' = [op EXCEPT ![o].pc = "insert"]
    /\ UNCHANGED <<gateway, db>>

\* user_id REFERENCES users(id), course_id REFERENCES courses(id)
ForeignKeyViolation(user_id, course_id) ==
    user_id \notin db.users \/ course_id \notin db.courses

\* INSERT INTO user_course_enrollments ... RETURNING id, rejected or not by
\* the constraints of the table.  The id is drawn from the sequence before
\* the constraints are checked, so a rejected INSERT uses one up.
Insert(o, rejected) ==
    /\ op[o].pc = "insert"
    /\ db.user_course_enrollments_id_seq < MaxEnrollments
    /\ IF rejected
       THEN /\ db' = [db EXCEPT !.user_course_enrollments_id_seq = @ + 1]
            /\ op' = Answer(o, 500)
       ELSE /\ db' = [db EXCEPT
                        !.user_course_enrollments_id_seq = @ + 1,
                        !.user_course_enrollments = @ \cup
                            {[id        |-> db.user_course_enrollments_id_seq + 1,
                              user_id   |-> op[o].user_id,
                              course_id |-> op[o].course_id,
                              status    |-> op[o].status]}]
            /\ op' = Answer(o, 201)
    /\ UNCHANGED gateway

EnrollInsertNoUnique(o) ==
    Insert(o, ForeignKeyViolation(op[o].user_id, op[o].course_id))

EnrollInsertNoForeignKey(o) ==
    Insert(o, UniqueViolation(op[o].user_id, op[o].course_id))

EnrollInsert(o) ==
    Insert(o, \/ UniqueViolation(op[o].user_id, op[o].course_id)
              \/ ForeignKeyViolation(op[o].user_id, op[o].course_id))

\* DELETE FROM user_course_enrollments WHERE id = $1, of
\* deleteUserEnrollment.
DeleteUserEnrollment(id) ==
    /\ db' = [db EXCEPT !.user_course_enrollments = {e \in @ : e.id # id}]
    /\ UNCHANGED <<gateway, op>>

NextEnroll ==
    \/ CreateUser
    \/ \E id \in UserIDs : DeleteUser(id)
    \/ CreateCourse
    \/ \E id \in CourseIDs : DeleteCourse(id)
    \/ \E o \in Ops, wellFormed \in BOOLEAN, id \in UserIDs,
          enrollment \in Enrollments :
            EnrollCheckUser(o, wellFormed, id, enrollment)
    \/ \E o \in Ops : EnrollCheckCourse(o)
    \/ \E o \in Ops : EnrollCheckEnrollment(o)
    \/ \E o \in Ops : EnrollInsert(o)
    \/ \E id \in EnrollmentIDs : DeleteUserEnrollment(id)

\* The backends run against the deployment's database whatever the
\* gateway's environment is.
InitBackend == Init /\ env.RENDER = "" /\ env.COURSE_SERVICE_URL = ""

SpecEnroll == InitBackend /\ [][NextEnroll]_vars

\* getNextEpisodeNumber: SELECT COUNT(*) FROM series WHERE course_id = $1,
\* plus one.
getNextEpisodeNumber(courseID) ==
    Cardinality({s \in db.series : s.course_id = courseID}) + 1

\* createSeriesForCourse and handleSeriesUpload up to their first
\* statement: the checks of the URL parameter and of the body or form, then
\* getNextEpisodeNumber.  wellFormed is FALSE when a check fails.
CreateSeriesEpisode(o, wellFormed, courseID) ==
    /\ Free(o)
    /\ IF ~wellFormed
       THEN op' = [op EXCEPT ![o] = [IdleOp EXCEPT !.pc = "responded",
                                                   !.code = 400]]
       ELSE op' = [op EXCEPT ![o] = [IdleOp EXCEPT
                        !.pc = "insertSeries",
                        !.course_id = courseID,
                        !.epNumber = getNextEpisodeNumber(courseID)]]
    /\ UNCHANGED <<gateway, db>>

\* INSERT INTO series ... RETURNING id, created_at, with the title
\* "Ep<epNumber>: <title>", of which the row keeps the number.
\* handleSeriesUpload uploads the files first: uploaded is FALSE when that
\* fails.  course_id REFERENCES courses(id).
CreateSeriesInsert(o, uploaded) ==
    /\ op[o].pc = "insertSeries"
    /\ db.series_id_seq < MaxSeries
    /\ IF ~uploaded
       THEN /\ op' = Answer(o, 500)
            /\ db' = db
       ELSE IF op[o].course_id \notin db.courses
       THEN /\ op' = Answer(o, 500)
            /\ db' = [db EXCEPT !.series_id_seq = @ + 1]
       ELSE /\ op' = Answer(o, 201)
            /\ db' = [db EXCEPT
                        !.series_id_seq = @ + 1,
                        !.series = @ \cup
                            {[id        |-> db.series_id_seq + 1,
                              course_id |-> op[o].course_id,
                              ep        |-> op[o].epNumber]}]
    /\ UNCHANGED gateway

\* DELETE FROM series WHERE id = $1, of deleteSeries.
DeleteSeries(id) ==
    /\ db' = [db EXCEPT !.series = {s \in @ : s.id # id}]
    /\ UNCHANGED <<gateway, op>>

NextSeries ==
    \/ CreateCourse
    \/ \E id \in CourseIDs : DeleteCourse(id)
    \/ \E o \in Ops, wellFormed \in BOOLEAN, courseID \in CourseIDs :
            CreateSeriesEpisode(o, wellFormed, courseID)
    \/ \E o \in Ops, uploaded \in BOOLEAN : CreateSeriesInsert(o, uploaded)
    \/ \E id \in SeriesIDs : DeleteSeries(id)

SpecSeries == InitBackend /\ [][NextSeries]_vars

\* The keys Cache.Set is called with.
SetKeys == {CacheKey(sGET, sCourses)}

Next ==
    \/ \E r \in Req, m \in Methods, p \in GatewayPaths :
          IncrementRequestsLock(r, m, p, DefaultAccept)
    \/ \E r \in Req : IncrementRequestsUnlock(r)
    \/ \E r \in Req : Route(r)
    \/ \E r \in Req : CacheGetLoad(r)
    \/ \E r \in Req : CacheGetTest(r)
    \/ \E r \in Req : CacheGetDelete(r)
    \/ \E r \in Req : IncrementCacheHitsLock(r)
    \/ \E r \in Req : IncrementCacheHitsUnlock(r)
    \/ \E r \in Req : IncrementCacheMissesLock(r)
    \/ \E r \in Req : IncrementCacheMissesUnlock(r)
    \/ \E r \in Req : ProxyDo(r)
    \/ \E r \in Req, s \in UpstreamStatuses, b \in Bodies : UpstreamReply(r, s, b)
    \/ \E r \in Req : UpstreamFail(r)
    \/ \E k \in SetKeys, d \in Bodies : CacheSet(k, d)
    \/ Tick

\* The gateway with a caller of Cache.Set beside it: proxyHandler itself
\* never calls Set, and without a caller the cache stays empty.
Spec == Init /\ [][Next]_vars

\* The gateway as it is built: nothing calls Cache.Set.
NextNoStore ==
    \/ \E r \in Req, m \in Methods, p \in GatewayPaths :
          IncrementRequestsLock(r, m, p, DefaultAccept)
    \/ \E r \in Req : IncrementRequestsUnlock(r)
    \/ \E r \in Req : Route(r)
    \/ \E r \in Req : CacheGetLoad(r)
    \/ \E r \in Req : IncrementCacheMissesLock(r)
    \/ \E r \in Req : IncrementCacheMissesUnlock(r)
    \/ \E r \in Req : ProxyDo(r)
    \/ \E r \in Req, s \in UpstreamStatuses, b \in Bodies : UpstreamReply(r, s, b)
    \/ \E r \in Req : UpstreamFail(r)
    \/ Tick

SpecNoStore == Init /\ [][NextNoStore]_vars

\* The environment variables of the backend base URLs, the values they are
\* given while the gateway runs, and the paths of the requests routed then.
EnvNames == {"COURSE_SERVICE_URL", "USER_SERVICE_URL", "ENROLLMENT_SERVICE_URL"}
EnvValues == {"", "http://backend-b:8080"}
EnvPaths == {sCourses, sUsers \o s42, sUsers \o s42 \o sEnrollments}

\* The process environment changes while the gateway runs (os.Setenv).
Setenv(name, value) ==
    /\ env[name] # value
    /\ env' = [env EXCEPT ![name] = value]
    /\ UNCHANGED <<now, store, metrics, mu, req, db, op>>

\* The gateway, as far as the upstream call, in an environment that changes.
NextEnv ==
    \/ \E r \in Req, m \in Methods, p \in EnvPaths :
          IncrementRequestsLock(r, m, p, DefaultAccept)
    \/ \E r \in Req : IncrementRequestsUnlock(r)
    \/ \E r \in Req : Route(r)
    \/ \E r \in Req : ProxyDo(r)
    \/ \E n \in EnvNames, v \in EnvValues : Setenv(n, v)

SpecEnv == Init /\ [][NextEnv]_vars

\* The steps of proxyHandler for a request that has arrived.
Continue(r) ==
    \/ IncrementRequestsUnlock(r)
    \/ Route(r)
    \/ CacheGetLoad(r)
    \/ CacheGetTest(r)
    \/ CacheGetDelete(r)
    \/ IncrementCacheHitsLock(r)
    \/ IncrementCacheHitsUnlock(r)
    \/ IncrementCacheMissesLock(r)
    \/ IncrementCacheMissesUnlock(r)
    \/ ProxyDo(r)
    \/ \E s \in UpstreamStatuses, b \in Bodies : UpstreamReply(r, s, b)
    \/ UpstreamFail(r)

\* The paths of the requests and the body of the Sets of the fair gateway.
FairPaths == {sCourses, sUnknown}
FairBodies == {"b1"}

NextFair ==
    \/ \E r \in Req, m \in Methods, p \in FairPaths :
          IncrementRequestsLock(r, m, p, DefaultAccept)
    \/ \E r \in Req : IncrementRequestsUnlock(r)
    \/ \E r \in Req : Route(r)
    \/ \E r \in Req : CacheGetLoad(r)
    \/ \E r \in Req : CacheGetTest(r)
    \/ \E r \in Req : CacheGetDelete(r)
    \/ \E r \in Req : IncrementCacheHitsLock(r)
    \/ \E r \in Req : IncrementCacheHitsUnlock(r)
    \/ \E r \in Req : IncrementCacheMissesLock(r)
    \/ \E r \in Req : IncrementCacheMissesUnlock(r)
    \/ \E r \in Req : ProxyDo(r)
    \/ \E r \in Req, s \in UpstreamStatuses, b \in Bodies : UpstreamReply(r, s, b)
    \/ \E r \in Req : UpstreamFail(r)
    \/ \E k \in SetKeys, d \in FairBodies : CacheSet(k, d)
    \/ Tick

\* The steps of proxyHandler that do not wait for the upstream.
ContinueLocal(r) ==
    \/ IncrementRequestsUnlock(r)
    \/ Route(r)
    \/ CacheGetLoad(r)
    \/ CacheGetTest(r)
    \/ CacheGetDelete(r)
    \/ IncrementCacheHitsLock(r)
    \/ IncrementCacheHitsUnlock(r)
    \/ IncrementCacheMissesLock(r)
    \/ IncrementCacheMissesUnlock(r)
    \/ ProxyDo(r)

\* The gateway under a scheduler that lets every goroutine run, with an
\* upstream that may never answer the call of request 1 and answers, or
\* fails, every other call.
SpecBlocked ==
    /\ Init /\ [][NextFair]_vars
    /\ WF_vars(ContinueLocal(1))
    /\ \A r \in Req \ {1} : WF_vars(Continue(r))

\* The gateway under a scheduler that lets every request's goroutine run, and
\* an upstream whose call returns or fails.
SpecFair == Init /\ [][NextFair]_vars /\ \A r \in Req : WF_vars(Continue(r))

\* The gateway with its own routes: requests for /health and /metrics beside
\* proxied ones, within one minute of the clock (no entry expires).
NextMetrics ==
    \/ \E r \in Req, m \in Methods, p \in MetricsPaths :
          IncrementRequestsLock(r, m, p, DefaultAccept)
    \/ \E r \in Req, m \in Methods, p \in MetricsPaths :
          HealthHandler(r, m, p, DefaultAccept)
    \/ \E r \in Req, m \in Methods, p \in MetricsPaths :
          MetricsRLock(r, m, p, DefaultAccept)
    \/ \E r \in Req : MetricsReadTotalRequests(r)
    \/ \E r \in Req : MetricsReadCacheHits(r)
    \/ \E r \in Req : MetricsReadCacheMisses(r)
    \/ \E r \in Req : MetricsRUnlock(r)
    \/ \E r \in Req : IncrementRequestsUnlock(r)
    \/ \E r \in Req : Route(r)
    \/ \E r \in Req : CacheGetLoad(r)
    \/ \E r \in Req : CacheGetTest(r)
    \/ \E r \in Req : IncrementCacheHitsLock(r)
    \/ \E r \in Req : IncrementCacheHitsUnlock(r)
    \/ \E r \in Req : IncrementCacheMissesLock(r)
    \/ \E r \in Req : IncrementCacheMissesUnlock(r)
    \/ \E r \in Req : ProxyDo(r)
    \/ \E r \in Req, s \in UpstreamStatuses, b \in Bodies : UpstreamReply(r, s, b)
    \/ \E r \in Req : UpstreamFail(r)
    \/ \E k \in SetKeys, d \in Bodies : CacheSet(k, d)

SpecMetrics == Init /\ [][NextMetrics]_vars

\* The cache key on its own: requests that differ in query string and
\* header, run as far as the routing decision.
NextKey ==
    \/ \E r \in Req, m \in Methods, u \in KeyURIs, a \in Accepts :
          IncrementRequestsLock(r, m, u, a)
    \/ \E r \in Req : IncrementRequestsUnlock(r)
    \/ \E r \in Req : Route(r)

SpecKey == Init /\ [][NextKey]_vars

\* The resolver on its own: one request over the resolver's input paths, run
\* as far as the routing decision.
NextResolver ==
    \/ \E m \in Methods, p \in ResolverPaths :
          IncrementRequestsLock(1, m, p, DefaultAccept)
    \/ IncrementRequestsUnlock(1)
    \/ Route(1)

SpecResolver == Init /\ [][NextResolver]_vars

(***************************************************************************)
(* What the properties speak of.                                           *)
(***************************************************************************)
\* The predicates of the three routing rules, each on its own.
RuleCourse(p) == HasPrefix(p, sCourses) \/ HasPrefix(p, sSeries)
RuleUser(p) == HasPrefix(p, sUsers) /\ ~Contains(p, sEnrollments)
RuleEnrollment(p) == Contains(p, sEnrollments)
MatchesNoRule(p) == ~RuleCourse(p) /\ ~RuleUser(p) /\ ~RuleEnrollment(p)

\* The request has passed the routing decision of proxyHandler.
Routed(r) == req[r].pc \notin {"idle", "incRequests", "received"}

\* The request was answered 404 "Service not found".
Answered404(r) ==
    /\ req[r].pc = "responded"
    /\ req[r].resp = Response(404, "Service not found", NoHeader)

Started(r) == req[r].pc # "idle"
Responded(r) == req[r].pc = "responded"
Quiescent == \A r \in Req : req[r].pc \in {"idle", "responded"}

(***************************************************************************)
(* C1: with RENDER unset, the routing decision is the first matching rule: *)
(* a path starting with /courses or /series goes to the course backend;    *)
(* otherwise a path starting with /users and not containing /enrollments   *)
(* goes to the user backend; otherwise a path containing /enrollments goes *)
(* to the enrollment backend; every other path is NotFound (404).  So      *)
(* /users/42 goes to the user backend, /users/42/enrollments to the        *)
(* enrollment backend and /unknown to NotFound.                            *)
(***************************************************************************)
C1_FirstMatch(r) ==
    LET p == req[r].path
        t == req[r].targetURL
    IN  /\ RuleCourse(p) => t = CourseServiceURL(env) /\ ~Answered404(r)
        /\ ~RuleCourse(p) /\ RuleUser(p) => t = UserServiceURL(env) /\ ~Answered404(r)
        /\ ~RuleCourse(p) /\ ~RuleUser(p) /\ RuleEnrollment(p)
             => t = EnrollmentServiceURL(env) /\ ~Answered404(r)
        /\ MatchesNoRule(p) => t = NotFound /\ Answered404(r)
        /\ p = sUsers \o s42 => t = UserServiceURL(env)
        /\ p = sUsers \o s42 \o sEnrollments => t = EnrollmentServiceURL(env)
        /\ p = sUnknown => Answered404(r)

C1_Resolver ==
    \A r \in Req : (Routed(r) /\ env.RENDER = "") => C1_FirstMatch(r)

\* A path that satisfies the course rule and the enrollment rule has gone to
\* the course backend, and /users/42/enrollments to the enrollment backend.
C1_Witness ==
    /\ env.RENDER = ""
    /\ Routed(1)
    /\ req[1].path \in {sCourses \o sEnrollments, sUsers \o s42 \o sEnrollments}
    /\ req[1].targetURL \in {CourseServiceURL(env), EnrollmentServiceURL(env)}
    /\ RuleCourse(req[1].path) <=> req[1].targetURL = CourseServiceURL(env)

(***************************************************************************)
(* C2: under every interleaving of the Gets of the requests and the Sets   *)
(* of the cache's writer, a Get returns found=true (the request goes on to *)
(* the hit branch) only for an entry with now < ExpiresAt at that moment,  *)
(* and the data it serves is that entry's.                                 *)
(***************************************************************************)
C2_ServedOnlyLive ==
    [][\A r \in Req :
         (req[r].pc = "cacheTest" /\ req'[r].pc = "hit")
            => /\ now < req[r].entry.ExpiresAt
               /\ req'[r].entry = req[r].entry
               /\ req[r].entry.Data \in Bodies]_vars

\* A Get has returned found=true in the last minute of its entry's life.
C2_Witness ==
    \E r \in Req : req[r].pc = "hit" /\ now = req[r].entry.ExpiresAt - 1

(***************************************************************************)
(* C3: when the upstream answers a routed GET that missed the cache with   *)
(* status 200, the response body is stored under the request's cache key   *)
(* (so that an identical GET within the TTL is a HIT with the same body).  *)
(***************************************************************************)
C3_StoredOnSuccess ==
    [][\A r \in Req :
         (/\ req[r].pc = "upstream"
          /\ req'[r].pc = "responded"
          /\ IsGet(req[r].method)
          /\ req'[r].reply.status = 200)
            => LET key == CacheKey(req[r].method, req[r].path)
               IN  /\ key \in DOMAIN store'
                   /\ store'[key].Data = req'[r].reply.body]_vars

(***************************************************************************)
(* C4: in every reachable state, requests part-way included,               *)
(* total_requests >= cache_hits + cache_misses; total_requests counts      *)
(* every request that has passed IncrementRequests, whatever its method    *)
(* and path, while cache_hits + cache_misses is bounded by the routed GET  *)
(* requests, and a non-GET request or one that matches no rule is never    *)
(* on the hit or the miss branch.                                          *)
(***************************************************************************)
C4_TotalBoundsHitsAndMisses ==
    /\ metrics.TotalRequests >= metrics.CacheHits + metrics.CacheMisses
    /\ metrics.TotalRequests =
         Cardinality({r \in Req : req[r].pc \notin {"idle", "incRequests"}})
    /\ metrics.CacheHits + metrics.CacheMisses <=
         Cardinality({r \in Req : /\ Started(r)
                                  /\ req[r].method = sGET
                                  /\ ~MatchesNoRule(req[r].path)})
    /\ \A r \in Req :
         (Started(r) /\ (req[r].method # sGET \/ MatchesNoRule(req[r].path)))
            => /\ req[r].pc \notin {"hit", "incCacheHits", "miss", "incCacheMisses"}
               /\ req[r].resp.xcache = NoHeader

\* A POST to a route and a GET that missed have both been answered: two
\* requests counted, one miss.
C4_Witness ==
    \E r1, r2 \in Req :
        /\ Responded(r1) /\ req[r1].method = sPOST /\ req[r1].reply.status = 200
        /\ Responded(r2) /\ req[r2].resp.xcache = "MISS"
        /\ metrics = [TotalRequests |-> 2, CacheHits |-> 0, CacheMisses |-> 1]

(***************************************************************************)
(* C5: no increment is lost: whenever no request is in flight,             *)
(* total_requests is the number of requests answered, cache_hits the       *)
(* number answered from the cache and cache_misses the number of GET       *)
(* requests that missed.                                                   *)
(***************************************************************************)
C5_NoLostIncrement ==
    Quiescent =>
       /\ metrics.TotalRequests = Cardinality({r \in Req : Responded(r)})
       /\ metrics.CacheHits =
            Cardinality({r \in Req : Responded(r) /\ req[r].resp.xcache = "HIT"})
       /\ metrics.CacheMisses =
            Cardinality({r \in Req : Responded(r) /\ req[r].resp.xcache = "MISS"})

\* Every request slot has been answered: one from the cache, one after a miss.
C5_Witness ==
    /\ \A r \in Req : Responded(r)
    /\ \E r1, r2 \in Req : req[r1].resp.xcache = "HIT" /\ req[r2].resp.xcache = "MISS"
    /\ metrics.TotalRequests = NReq

(***************************************************************************)
(* C6: when N GET requests have run and all are answered, total_requests   *)
(* = N and cache_hits + cache_misses <= N, with equality when every one    *)
(* of them resolved to an upstream; each GET that resolved to an upstream  *)
(* is answered with exactly one of X-Cache: HIT and X-Cache: MISS.         *)
(***************************************************************************)
C6_GetCounters ==
    LET started == {r \in Req : Started(r)}
        resolved == {r \in started : req[r].targetURL # NotFound}
        N == Cardinality(started)
    IN  (Quiescent /\ \A r \in started : req[r].method = sGET) =>
           /\ metrics.TotalRequests = N
           /\ metrics.CacheHits + metrics.CacheMisses <= N
           /\ metrics.CacheHits + metrics.CacheMisses = Cardinality(resolved)
           /\ resolved = started => metrics.CacheHits + metrics.CacheMisses = N
           /\ \A r \in resolved : req[r].resp.xcache \in {"HIT", "MISS"}

\* Every slot ran a GET for the cached key and is answered; both hit.
C6_Witness ==
    /\ \A r \in Req : /\ Responded(r)
                      /\ req[r].method = sGET
                      /\ req[r].path = sCourses
                      /\ req[r].targetURL # NotFound
    /\ metrics.CacheHits + metrics.CacheMisses = NReq
    /\ metrics.CacheHits >= 2

(***************************************************************************)
(* C7 as stated: a request whose path matches no routing rule is answered  *)
(* 404 {"error":"Service not found"}, is never forwarded and never reads   *)
(* the cache.                                                              *)
(***************************************************************************)
C7_NoRouteAlways404 ==
    \A r \in Req :
        (Responded(r) /\ MatchesNoRule(req[r].path))
           => /\ Answered404(r)
              /\ req[r].calls = << >>
              /\ req[r].gets = 0

(***************************************************************************)
(* C7, amended: a request whose path matches no routing rule is answered   *)
(* 404 {"error":"Service not found"} when the RENDER environment variable  *)
(* is unset, and with handleMockResponse's answer when it is set.  Either  *)
(* way it ends at the routing decision: it is never forwarded, never reads *)
(* or writes the cache, gets no X-Cache header and is on neither the hit   *)
(* nor the miss branch, so cache_hits + cache_misses counts only other     *)
(* requests.                                                               *)
(***************************************************************************)
C7_NoRoute404UnlessRender ==
    /\ \A r \in Req :
         (Started(r) /\ MatchesNoRule(req[r].path))
            => /\ req[r].pc \in {"incRequests", "received", "responded"}
               /\ req[r].calls = << >>
               /\ req[r].gets = 0
               /\ req[r].resp.xcache = NoHeader
               /\ Responded(r) =>
                    IF env.RENDER = ""
                      THEN Answered404(r)
                      ELSE /\ req[r].resp.status = 200
                           /\ req[r].resp.body = MockResponse(req[r].method, req[r].path).body
    /\ metrics.CacheHits + metrics.CacheMisses
         = Cardinality({r \in Req : req[r].resp.xcache # NoHeader})

\* With RENDER unset and an entry in the cache, GET /unknown has been answered
\* 404 while another request was served from the cache.
C7_Witness ==
    /\ env.RENDER = ""
    /\ \E r1, r2 \in Req :
         /\ req[r1].path = sUnknown /\ Answered404(r1)
         /\ req[r2].resp.xcache = "HIT"
    /\ metrics.TotalRequests = 2
    /\ metrics.CacheHits = 1

(***************************************************************************)
(* C8: a request with a method other than GET never calls Cache.Get, never *)
(* changes the store, cache_hits or cache_misses, never gets an X-Cache    *)
(* header, and, once resolved to an upstream, goes from the routing        *)
(* decision straight to the forward.                                       *)
(***************************************************************************)
C8_NonGetBypassesCache ==
    [][\A r \in Req :
         (req'[r] # req[r] /\ req'[r].method # sGET)
            => /\ store' = store
               /\ metrics'.CacheHits = metrics.CacheHits
               /\ metrics'.CacheMisses = metrics.CacheMisses
               /\ req'[r].gets = 0
               /\ req'[r].resp.xcache = NoHeader
               /\ req'[r].pc \in {"incRequests", "received", "forward", "upstream",
                                  "responded"}
               /\ (req[r].pc = "received" /\ req'[r].targetURL # NotFound)
                     => req'[r].pc = "forward"]_vars

\* POST /courses was forwarded and answered while GET:/courses is cached.
C8_Witness ==
    \E r \in Req :
        /\ req[r].method = sPOST
        /\ req[r].path = sCourses
        /\ Responded(r)
        /\ req[r].reply.status = 200
        /\ Len(req[r].calls) = 1
        /\ CacheKey(sGET, sCourses) \in DOMAIN store
        /\ CacheKey(sPOST, sCourses) \notin DOMAIN store

\* The backend the routing rules name for a path.
RuleTarget(p) ==
    IF RuleCourse(p) THEN CourseServiceURL(env)
    ELSE IF RuleUser(p) THEN UserServiceURL(env)
    ELSE EnrollmentServiceURL(env)

(***************************************************************************)
(* C9: a routed GET whose Cache.Get finds a live entry takes the hit       *)
(* branch: it increments cache_hits by one and nothing else, answers 200   *)
(* with X-Cache: HIT and the loaded entry's data as the body, and ends     *)
(* without an upstream call; no step of it changes cache_misses or the     *)
(* store.                                                                  *)
(***************************************************************************)
C9_HitBranch ==
    [][\A r \in Req :
         LET key == CacheKey(req[r].method, req[r].path)
         IN  /\ (req[r].pc = "cacheGet" /\ req'[r].pc = "cacheTest")
                   => req'[r].entry = store[key] /\ store' = store
             /\ (req[r].pc = "cacheTest" /\ req'[r] # req[r]
                   /\ now < req[r].entry.ExpiresAt)
                   => req'[r].pc = "hit" /\ store' = store /\ metrics' = metrics
             /\ (req[r].pc = "hit" /\ req'[r] # req[r])
                   => /\ req'[r].pc = "incCacheHits"
                      /\ store' = store /\ metrics' = metrics
             /\ (req[r].pc = "incCacheHits" /\ req'[r] # req[r])
                   => /\ req'[r].pc = "responded"
                      /\ metrics' = [metrics EXCEPT !.CacheHits = @ + 1]
                      /\ store' = store
                      /\ req'[r].resp = Response(200, req[r].entry.Data, "HIT")
                      /\ req'[r].calls = << >>]_vars

\* A GET was answered from the cache with the body b2, with no upstream call.
C9_Witness ==
    \E r \in Req :
        /\ Responded(r)
        /\ req[r].resp = Response(200, "b2", "HIT")
        /\ req[r].entry.Data = "b2"
        /\ req[r].calls = << >>
        /\ metrics.CacheHits = 1

(***************************************************************************)
(* C10: a routed GET whose Cache.Get finds no entry, or an expired one,    *)
(* takes the miss branch: it increments cache_misses by one and no other   *)
(* counter, sets X-Cache: MISS, and makes one upstream call to the         *)
(* resolved base URL + path with the inbound method; when the upstream     *)
(* answers, the caller gets its status and body unchanged.                 *)
(***************************************************************************)
C10_MissBranch ==
    [][\A r \in Req :
         LET key == CacheKey(req[r].method, req[r].path)
             acts == req'[r] # req[r]
         IN  /\ (req[r].pc = "cacheGet" /\ acts /\ key \notin DOMAIN store)
                   => req'[r].pc = "miss"
             /\ (req[r].pc = "cacheTest" /\ acts /\ now >= req[r].entry.ExpiresAt)
                   => req'[r].pc = "cacheDelete"
             /\ (req[r].pc = "cacheDelete" /\ acts) => req'[r].pc = "miss"
             /\ (req[r].pc = "miss" /\ acts)
                   => req'[r].pc = "incCacheMisses" /\ metrics' = metrics
             /\ (req[r].pc = "incCacheMisses" /\ acts)
                   => /\ req'[r].pc = "forward"
                      /\ metrics' = [metrics EXCEPT !.CacheMisses = @ + 1]
                      /\ req'[r].resp.xcache = "MISS"
             /\ (req[r].pc = "forward" /\ acts /\ req[r].method = sGET)
                   => /\ req'[r].pc = "upstream"
                      /\ req[r].resp.xcache = "MISS"
                      /\ req'[r].calls = << [base |-> RuleTarget(req[r].path),
                                             path |-> req[r].path,
                                             method |-> sGET] >>
             /\ (req[r].pc = "upstream" /\ acts /\ req[r].method = sGET)
                   => /\ req'[r].pc = "responded"
                      /\ req'[r].calls = req[r].calls
                      /\ req'[r].reply # NoReply
                           => req'[r].resp =
                                Response(req'[r].reply.status, req'[r].reply.body, "MISS")
            ]_vars

\* With COURSE_SERVICE_URL set, a GET /courses that found an expired entry was
\* forwarded to that URL and the upstream's 500 reached the caller.
C10_Witness ==
    \E r \in Req :
        /\ Responded(r)
        /\ req[r].resp = Response(500, "b1", "MISS")
        /\ req[r].reply = [status |-> 500, body |-> "b1"]
        /\ req[r].calls = << [base |-> "http://courses:8081", path |-> sCourses,
                              method |-> sGET] >>
        /\ req[r].gets = 1
        /\ now >= ttl
        /\ CacheKey(sGET, sCourses) \notin DOMAIN store

(***************************************************************************)
(* The store's entry for a key, NoEntry when there is none.                *)
(***************************************************************************)
EntryAt(m, k) == IF k \in DOMAIN m THEN m[k] ELSE NoEntry

\* The step writes the key: its entry after the step is not the one before.
Writes(k) == k \in DOMAIN store' /\ EntryAt(store', k) # EntryAt(store, k)

(***************************************************************************)
(* C11: every entry is written with ExpiresAt = the time of its Set + 5    *)
(* minutes, whatever its key; from then on, with no later Set on the key,  *)
(* the entry stays in the store while now < ExpiresAt, a Get that loads it *)
(* returns found=true with its data exactly when its expiry test runs at   *)
(* a time before ExpiresAt, and a Get that finds no entry returns          *)
(* found=false.                                                            *)
(***************************************************************************)
C11_FixedTTL ==
    [][/\ \A k \in DOMAIN store' : Writes(k) => store'[k].ExpiresAt = now + ttl
       /\ \A k \in DOMAIN store :
            now < store[k].ExpiresAt => k \in DOMAIN store'
       /\ \A r \in Req :
            LET key == CacheKey(req[r].method, req[r].path)
            IN  /\ (req[r].pc = "cacheGet" /\ req'[r] # req[r])
                      => IF key \in DOMAIN store
                           THEN req'[r].pc = "cacheTest" /\ req'[r].entry = store[key]
                           ELSE req'[r].pc = "miss"
                /\ (req[r].pc = "cacheTest" /\ req'[r] # req[r])
                      => IF now < req[r].entry.ExpiresAt
                           THEN req'[r].pc = "hit" /\ req'[r].entry = req[r].entry
                           ELSE req'[r].pc = "cacheDelete"]_vars

(***************************************************************************)
(* C12: Set overwrites unconditionally: a step that writes key k leaves    *)
(* exactly one entry for k, a body with ExpiresAt = now + 5 minutes,       *)
(* whether k had an entry, live or expired, or none, and changes no other  *)
(* key; the written entry is the one the store holds for k (and a Get      *)
(* loads) until the next Set on k or its expiry.                           *)
(***************************************************************************)
C12_Overwrite ==
    [][/\ \A k \in DOMAIN store' :
            Writes(k) => /\ store'[k].Data \in Bodies
                         /\ store'[k].ExpiresAt = now + ttl
                         /\ \A j \in (DOMAIN store \cup DOMAIN store') \ {k} :
                              EntryAt(store', j) = EntryAt(store, j)
       /\ \A k \in DOMAIN store :
            (now < store[k].ExpiresAt /\ ~Writes(k)) => EntryAt(store', k) = store[k]
       /\ \A r \in Req :
            (req[r].pc = "cacheGet" /\ req'[r].pc = "cacheTest")
               => req'[r].entry = store[CacheKey(req[r].method, req[r].path)]]_vars

(***************************************************************************)
(* C18: the lazy delete of a Get removes only an expired entry: the entry  *)
(* a Get's Delete step takes out of the store is never one with            *)
(* now < ExpiresAt, so an entry written by a Set that completed after the  *)
(* Get loaded the stale one survives the Get.                              *)
(***************************************************************************)
C18_EvictsOnlyExpired ==
    [][\A r \in Req :
         LET key == CacheKey(req[r].method, req[r].path)
         IN  (/\ req[r].pc = "cacheDelete"
              /\ req'[r].pc = "miss"
              /\ key \in DOMAIN store
              /\ key \notin DOMAIN store')
                => now >= store[key].ExpiresAt]_vars

(***************************************************************************)
(* C16: a request makes at most one upstream call; when the upstream       *)
(* answers, whatever its status, the response carries that status and      *)
(* body unchanged, and when the transport fails the response is the proxy  *)
(* error; in neither case is the call made again.                          *)
(***************************************************************************)
C16_AtMostOneUpstreamCall ==
    \A r \in Req :
       /\ Len(req[r].calls) <= 1
       /\ (req[r].pc = "responded" /\ Len(req[r].calls) = 1)
             => IF req[r].reply # NoReply
                  THEN /\ req[r].resp.status = req[r].reply.status
                       /\ req[r].resp.body = req[r].reply.body
                  ELSE /\ req[r].resp.status = 500
                       /\ req[r].resp.body = "proxy error"

\* One request answered with the upstream's 500, another after a transport
\* failure, each after a single call.
C16_Witness ==
    \E r1, r2 \in Req :
       /\ req[r1].pc = "responded" /\ Len(req[r1].calls) = 1
       /\ req[r1].reply.status = 500 /\ req[r1].resp.status = 500
       /\ req[r2].pc = "responded" /\ Len(req[r2].calls) = 1
       /\ req[r2].reply = NoReply /\ req[r2].resp.body = "proxy error"

\* How many of the three routing rules' predicates the path satisfies.
RulesMatched(p) ==
    Cardinality({i \in 1..3 : \/ i = 1 /\ RuleCourse(p)
                              \/ i = 2 /\ RuleUser(p)
                              \/ i = 3 /\ RuleEnrollment(p)})

(***************************************************************************)
(* C19 as stated: the path of no request satisfies the predicate of more   *)
(* than one routing rule.                                                  *)
(***************************************************************************)
C19_MutuallyExclusive ==
    \A r \in Req : Started(r) => RulesMatched(req[r].path) <= 1

(***************************************************************************)
(* C19: the user rule excludes the course rule and the enrollment rule; a  *)
(* path that satisfies exactly one rule goes to that rule's backend; a     *)
(* path that satisfies both the course rule and the enrollment rule (it    *)
(* starts with /courses or /series and contains /enrollments) goes to the  *)
(* course backend, because the course rule is evaluated first.             *)
(***************************************************************************)
C19_OverlapGoesToCourse ==
    \A r \in Req :
       LET p == req[r].path
       IN  Started(r) =>
             /\ ~(RuleUser(p) /\ RuleCourse(p))
             /\ ~(RuleUser(p) /\ RuleEnrollment(p))
             /\ (Routed(r) /\ env.RENDER = "" /\ RulesMatched(p) = 1)
                   => req[r].targetURL = RuleTarget(p)
             /\ (Routed(r) /\ env.RENDER = "" /\ RuleCourse(p) /\ RuleEnrollment(p))
                   => req[r].targetURL = CourseServiceURL(env)

\* /series/enrollments, which satisfies the course rule and the enrollment
\* rule, has been routed to the course backend.
C19_Witness ==
    /\ env.RENDER = ""
    /\ Routed(1)
    /\ req[1].path = sSeries \o sEnrollments
    /\ RulesMatched(req[1].path) = 2
    /\ req[1].targetURL = CourseServiceURL(env)

\* proxyHandler has built the request's cache key (line 153).
HasKey(r) == Routed(r) /\ env.RENDER = "" /\ req[r].targetURL # NotFound

(***************************************************************************)
(* C15: the cache key of a request is its method, ":" and its path, the    *)
(* path being the request URI without its query string; two requests have  *)
(* the same key exactly when they have the same method and the same path,  *)
(* whatever their query strings and headers.                               *)
(***************************************************************************)
C15_KeyIsMethodAndPath ==
    \A r1, r2 \in Req :
       (HasKey(r1) /\ HasKey(r2)) =>
          /\ req[r1].cacheKey = req[r1].method \o sColon \o req[r1].path
          /\ req[r1].uri \in {sCourses, sCourses \o sQueryA, sCourses \o sQueryB}
                => req[r1].cacheKey = req[r1].method \o sColon \o sCourses
          /\ (req[r1].cacheKey = req[r2].cacheKey)
                <=> (req[r1].method = req[r2].method /\ req[r1].path = req[r2].path)

\* Two GETs of /courses with different query strings and different headers
\* have the same key.
C15_Witness ==
    /\ HasKey(1) /\ HasKey(2)
    /\ req[1].method = sGET /\ req[2].method = sGET
    /\ req[1].uri = sCourses \o sQueryA
    /\ req[2].uri = sCourses \o sQueryB
    /\ req[1].accept # req[2].accept
    /\ req[1].cacheKey = req[2].cacheKey

\* The requests that have arrived and are past metrics.IncrementRequests, if
\* they enter it at all.
Arrivals == {r \in Req : Started(r) /\ req[r].pc # "incRequests"}

\* The request is a GET of /health or of /metrics.
OwnRoute(r) == req[r].method = sGET /\ req[r].path \in {sHealth, sMetrics}

(***************************************************************************)
(* C13 as stated: every request that has arrived, whatever its method and  *)
(* path, has been counted once in total_requests.                          *)
(***************************************************************************)
C13_EveryRequestCounted ==
    metrics.TotalRequests = Cardinality(Arrivals)

(***************************************************************************)
(* C13: every request other than GET /health and GET /metrics has been     *)
(* counted once in total_requests by the time it is routed, whatever its   *)
(* method and path and however it ends; GET /health and GET /metrics are   *)
(* not counted.                                                            *)
(***************************************************************************)
C13_ProxiedRequestsCounted ==
    /\ metrics.TotalRequests = Cardinality({r \in Arrivals : ~OwnRoute(r)})
    /\ \A r \in Req :
          (Started(r) /\ ~OwnRoute(r)) => req[r].pc \notin
              {"readTotalRequests", "readCacheHits", "readCacheMisses", "rUnlock"}

\* A GET of /metrics and a POST of /metrics have both been answered: one
\* request is counted.
C13_Witness ==
    /\ Quiescent
    /\ \E r1, r2 \in Req :
          /\ Responded(r1) /\ req[r1].method = sGET /\ req[r1].path = sMetrics
          /\ Responded(r2) /\ req[r2].method = sPOST /\ req[r2].path = sMetrics
    /\ metrics.TotalRequests = 1

(***************************************************************************)
(* C14: no step of the gateway, a step of a proxied request, of a GET      *)
(* /health or of a GET /metrics, lowers a counter: every step leaves each  *)
(* of total_requests, cache_hits and cache_misses as it was or one higher. *)
(***************************************************************************)
C14_CountersMonotonic ==
    [][/\ metrics'.TotalRequests \in {metrics.TotalRequests, metrics.TotalRequests + 1}
       /\ metrics'.CacheHits \in {metrics.CacheHits, metrics.CacheHits + 1}
       /\ metrics'.CacheMisses \in {metrics.CacheMisses, metrics.CacheMisses + 1}]_vars

\* A GET /metrics has been answered after a proxied GET was counted as a hit:
\* the counters stand as they stood.
C14_Witness ==
    \E r \in Req :
       /\ Responded(r) /\ OwnRoute(r) /\ req[r].path = sMetrics
       /\ req[r].snap.total_requests = 1 /\ req[r].snap.cache_hits = 1
       /\ metrics = [TotalRequests |-> 1, CacheHits |-> 1, CacheMisses |-> 0]

\* The /metrics handler of request r holds the read lock.
Reading(r) ==
    req[r].pc \in {"readTotalRequests", "readCacheHits", "readCacheMisses", "rUnlock"}

(***************************************************************************)
(* C17: no step of a GET /metrics changes a counter, and the snapshot it   *)
(* returns is the three values the counters hold when the handler          *)
(* returns, which satisfy total_requests >= cache_hits + cache_misses,     *)
(* also while other requests are between their increments.                 *)
(***************************************************************************)
C17_SnapshotConsistent ==
    [][\A r \in Req :
         /\ (req'[r] # req[r] /\ (Reading(r) \/ req'[r].pc = "readTotalRequests"))
               => metrics' = metrics
         /\ (req[r].pc = "rUnlock" /\ req'[r].pc = "responded")
               => /\ req'[r].snap = [total_requests |-> metrics.TotalRequests,
                                     cache_hits |-> metrics.CacheHits,
                                     cache_misses |-> metrics.CacheMisses]
                  /\ req'[r].snap.total_requests
                        >= req'[r].snap.cache_hits + req'[r].snap.cache_misses]_vars

\* A snapshot with total_requests = 1 and no hit or miss has been returned
\* while the other request, a GET, was counted but not yet a hit or a miss.
C17_Witness ==
    \E r1, r2 \in Req :
       /\ Responded(r1) /\ req[r1].path = sMetrics
       /\ req[r1].snap = [total_requests |-> 1, cache_hits |-> 0, cache_misses |-> 0]
       /\ req[r2].method = sGET
       /\ req[r2].pc \in {"received", "cacheGet", "cacheTest", "hit", "miss"}
       /\ metrics.CacheHits + metrics.CacheMisses = 0

\* The state of the request state machine a position of proxyHandler is in.
StageOf(pc) ==
    IF pc = "idle" THEN "NONE"
    ELSE IF pc \in {"incRequests", "received"} THEN "RECEIVED"
    ELSE IF pc \in {"cacheGet", "cacheTest", "cacheDelete", "hit", "incCacheHits",
                    "miss", "incCacheMisses"} THEN "CACHE_CHECK"
    ELSE IF pc \in {"forward", "upstream"} THEN "FORWARD"
    ELSE "RESPONDED"

(***************************************************************************)
(* C20 as stated: a request changes state only along RECEIVED -> RESOLVED  *)
(* -> (CACHE_CHECK | FORWARD) -> RESPONDED, FORWARD following CACHE_CHECK   *)
(* on a miss; RESOLVED is passed within the routing step, which therefore  *)
(* ends in CACHE_CHECK or FORWARD.                                         *)
(***************************************************************************)
C20_ListedTransitionsOnly ==
    [][\A r \in Req :
         LET a == StageOf(req[r].pc)
             b == StageOf(req'[r].pc)
         IN  a # b =>
               \/ a = "NONE" /\ b = "RECEIVED"
               \/ a = "RECEIVED" /\ b \in {"CACHE_CHECK", "FORWARD"}
               \/ a = "CACHE_CHECK" /\ b \in {"FORWARD", "RESPONDED"}
               \/ a = "FORWARD" /\ b = "RESPONDED"]_vars

(***************************************************************************)
(* C20: a request changes state only by: arrival into RECEIVED; from       *)
(* RECEIVED to RESPONDED with the mock response when RENDER is set, and    *)
(* otherwise through RESOLVED to RESPONDED with 404 when no rule matches,  *)
(* to CACHE_CHECK when it is a GET with a target, to FORWARD when it is    *)
(* not a GET and has a target; from CACHE_CHECK to RESPONDED on a hit and  *)
(* to FORWARD on a miss; from FORWARD to RESPONDED.  RESPONDED is final,   *)
(* and every request that has arrived reaches it.                          *)
(***************************************************************************)
C20_Pipeline ==
    /\ [][\A r \in Req :
            LET a == StageOf(req[r].pc)
                b == StageOf(req'[r].pc)
                resolved == env.RENDER = "" /\ req'[r].targetURL # NotFound
            IN  /\ a = "RESPONDED" => req'[r] = req[r]
                /\ a # b =>
                     \/ a = "NONE" /\ b = "RECEIVED"
                     \/ /\ a = "RECEIVED" /\ b = "RESPONDED"
                        /\ \/ env.RENDER # ""
                           \/ /\ MatchesNoRule(req[r].path)
                              /\ req'[r].resp = Response(404, "Service not found", NoHeader)
                     \/ /\ a = "RECEIVED" /\ b = "CACHE_CHECK"
                        /\ req[r].method = sGET /\ resolved
                     \/ /\ a = "RECEIVED" /\ b = "FORWARD"
                        /\ req[r].method # sGET /\ resolved
                     \/ /\ a = "CACHE_CHECK" /\ b = "RESPONDED"
                        /\ req[r].pc = "incCacheHits"
                     \/ /\ a = "CACHE_CHECK" /\ b = "FORWARD"
                        /\ req[r].pc = "incCacheMisses"
                     \/ a = "FORWARD" /\ b = "RESPONDED"]_vars
    /\ \A r \in Req : Started(r) ~> Responded(r)

\* Both requests have been answered: one from the cache, the other by the
\* upstream after a miss.
C20_Witness ==
    \E r1, r2 \in Req :
       /\ Responded(r1) /\ req[r1].resp.xcache = "HIT"
       /\ Responded(r2) /\ req[r2].resp.xcache = "MISS" /\ Len(req[r2].calls) = 1

(***************************************************************************)
(* C21: the metrics mutex is held only inside an increment (never by a     *)
(* request that is routing, looking up the cache, forwarding or waiting    *)
(* for the upstream), and while the upstream never answers the call of     *)
(* request 1, request 1 still reaches its upstream call or its response    *)
(* and every other request that has arrived reaches RESPONDED.             *)
(***************************************************************************)
C21_NoEndToEndLock ==
    /\ [](\A r \in Req :
            mu.writer = r
               => req[r].pc \in {"incRequests", "incCacheHits", "incCacheMisses"})
    /\ Started(1) ~> (Responded(1) \/ req[1].pc = "upstream")
    /\ \A r \in Req \ {1} : Started(r) ~> Responded(r)

\* Request 1 waits for its upstream while request 2, which also went to the
\* upstream after a miss, has been answered.
C21_Witness ==
    /\ req[1].pc = "upstream"
    /\ Responded(2) /\ Len(req[2].calls) = 1 /\ req[2].resp.xcache = "MISS"
    /\ mu.writer = 0

\* A GET that missed, went to the upstream and was answered 200.
ForwardedOk(r) ==
    /\ Responded(r) /\ HasKey(r) /\ req[r].method = sGET
    /\ Len(req[r].calls) = 1 /\ req[r].reply.status = 200

(***************************************************************************)
(* C22: when two GETs of the same key have both missed, both gone to the   *)
(* upstream and both been answered 200, each has counted one miss and the  *)
(* cache holds one whole entry for the key: the body of one of the two     *)
(* answers, with an expiry 5 minutes after a time at which it was stored.  *)
(***************************************************************************)
C22_RaceLeavesOneEntry ==
    \A r1, r2 \in Req :
       (r1 # r2 /\ ForwardedOk(r1) /\ ForwardedOk(r2)
          /\ req[r1].cacheKey = req[r2].cacheKey)
          => /\ req[r1].resp.xcache = "MISS" /\ req[r2].resp.xcache = "MISS"
             /\ metrics.CacheMisses = 2
             /\ req[r1].cacheKey \in DOMAIN store
             /\ store[req[r1].cacheKey].Data \in {req[r1].reply.body, req[r2].reply.body}
             /\ store[req[r1].cacheKey].ExpiresAt \in {t + ttl : t \in 0..now}

\* Request r is inside Cache.Get and takes a step.
GetStep(r) ==
    req[r].pc \in {"cacheGet", "cacheTest", "cacheDelete"} /\ req'[r] # req[r]

(***************************************************************************)
(* C23: a step of Get(k) either leaves the whole store as it is, or        *)
(* removes the entry of k and nothing else, and then that entry is an      *)
(* expired one; a live entry is never removed or changed by a Get.  Every  *)
(* step that removes an entry is the delete of a Get: no other step of     *)
(* the gateway evicts.                                                     *)
(***************************************************************************)
C23_GetOnlyEvictsExpired ==
    [][/\ \A r \in Req :
            GetStep(r) =>
               \/ store' = store
               \/ /\ req[r].pc = "cacheDelete"
                  /\ req[r].cacheKey \in DOMAIN store
                  /\ store' = MapDelete(store, req[r].cacheKey)
                  /\ ~(now < store[req[r].cacheKey].ExpiresAt)
       /\ (\E k \in DOMAIN store : k \notin DOMAIN store')
             => \E r \in Req : req[r].pc = "cacheDelete" /\ req'[r].pc = "miss"]_vars

\* The routing rule that decides the path: 1, 2 or 3, and 0 when none does.
RuleOf(p) ==
    IF RuleCourse(p) THEN 1 ELSE IF RuleUser(p) THEN 2
    ELSE IF RuleEnrollment(p) THEN 3 ELSE 0

(***************************************************************************)
(* C24: the base URL of a backend is fixed when the gateway starts: any    *)
(* two requests that the same routing rule sends to a backend are sent to  *)
(* the same base URL, whatever happens to the environment between them,    *)
(* and the upstream call of each goes to that URL.                         *)
(***************************************************************************)
C24_ResolvedOnceAtStartup ==
    \A r1, r2 \in Req :
       (HasKey(r1) /\ HasKey(r2) /\ RuleOf(req[r1].path) = RuleOf(req[r2].path))
          => /\ req[r1].targetURL = req[r2].targetURL
             /\ \A i \in 1..Len(req[r1].calls) :
                   req[r1].calls[i].base = req[r2].targetURL

\* The upstream call of the request, in state q, has ended in a non-2xx
\* answer or in a transport failure.
UpstreamError(q) ==
    /\ q.pc = "responded" /\ Len(q.calls) = 1
    /\ q.reply = NoReply \/ q.reply.status \notin 200..299

(***************************************************************************)
(* C25: the step in which a request gets a non-2xx answer or a transport   *)
(* failure from the upstream leaves the store as it was, and no GET of a   *)
(* key for which a request has had such an outcome is answered from the    *)
(* cache.                                                                  *)
(***************************************************************************)
C25_ErrorsNotCached ==
    [][/\ \A r \in Req :
            (req[r].pc = "upstream" /\ UpstreamError(req'[r])) => store' = store
       /\ \A r1, r2 \in Req :
            (UpstreamError(req'[r1]) /\ req'[r2].cacheKey = req'[r1].cacheKey
               /\ req'[r1].method = sGET)
               => /\ req'[r2].resp.xcache # "HIT"
                  /\ req'[r1].cacheKey \notin DOMAIN store']_vars

\* A GET of /courses was answered 500 by the upstream, and another GET of
\* /courses was a miss and went to the upstream itself.
C25_Witness ==
    \E r1, r2 \in Req :
       /\ r1 # r2
       /\ UpstreamError(req[r1]) /\ req[r1].reply.status = 500
       /\ req[r1].method = sGET /\ req[r2].method = sGET
       /\ req[r2].cacheKey = req[r1].cacheKey
       /\ Responded(r2) /\ req[r2].resp.xcache = "MISS" /\ Len(req[r2].calls) = 1
       /\ store = [k \in {} |-> NoEntry]

\* The routed GETs that are past the cache check and its miss count.
PastCacheCheck ==
    {r \in Req : HasKey(r) /\ req[r].method = sGET
                   /\ req[r].pc \in {"forward", "upstream", "responded"}}

(***************************************************************************)
(* C26: in the gateway as built (nothing calls Cache.Set) the store holds  *)
(* no entry in any reachable state, cache_hits is 0, every routed GET that *)
(* is past the cache check carries X-Cache: MISS and goes, or has gone, to *)
(* the upstream, and cache_misses is the number of those GETs.             *)
(***************************************************************************)
C26_CacheNeverPopulated ==
    /\ DOMAIN store = {}
    /\ metrics.CacheHits = 0
    /\ metrics.CacheMisses = Cardinality(PastCacheCheck)
    /\ \A r \in PastCacheCheck :
          /\ req[r].resp.xcache = "MISS"
          /\ req[r].pc # "forward" => Len(req[r].calls) = 1
          /\ req[r].gets = 1

\* Two GETs of the same path, one after the other has been answered 200 by
\* the upstream: both were misses.
C26_Witness ==
    /\ Quiescent
    /\ PastCacheCheck = Req
    /\ req[1].cacheKey = req[2].cacheKey
    /\ \A r \in Req : req[r].reply.status = 200 /\ req[r].resp.xcache = "MISS"
    /\ metrics = [TotalRequests |-> 2, CacheHits |-> 0, CacheMisses |-> 2]

(***************************************************************************)
(* C27: when RENDER is set, every request that has reached proxyHandler is *)
(* counted in total_requests and is answered by handleMockResponse         *)
(* straight after: it makes no upstream call and no Cache.Get, has no      *)
(* cache key or target, gets no X-Cache header and never the 404 "Service  *)
(* not found", whatever its path, and cache_hits and cache_misses stay 0.  *)
(***************************************************************************)
C27_RenderMock ==
    env.RENDER # "" =>
       /\ metrics.TotalRequests = Cardinality(Arrivals)
       /\ metrics.CacheHits = 0 /\ metrics.CacheMisses = 0
       /\ \A r \in Req :
             /\ req[r].pc \in {"idle", "incRequests", "received", "responded"}
             /\ req[r].calls = << >> /\ req[r].gets = 0
             /\ req[r].targetURL = NotFound /\ req[r].cacheKey = << >>
             /\ req[r].resp.xcache = NoHeader
             /\ ~Answered404(r)
             /\ Responded(r) =>
                  LET mock == MockResponse(req[r].method, req[r].path)
                  IN  req[r].resp = Response(mock.status, mock.body, NoHeader)

\* With RENDER set, a request for /unknown and a GET of /courses have both
\* been answered 200 by the mock, and both are counted.
C27_Witness ==
    /\ env.RENDER # ""
    /\ \E r1, r2 \in Req :
          /\ Responded(r1) /\ req[r1].path = sUnknown /\ req[r1].resp.status = 200
          /\ Responded(r2) /\ req[r2].path = sCourses /\ req[r2].method = sGET
          /\ req[r2].resp.body = "mock courses"
    /\ metrics.TotalRequests = 2

\* The rows of user_course_enrollments of one (user_id, course_id).
RowsOf(user_id, course_id) ==
    {e \in db.user_course_enrollments :
        e.user_id = user_id /\ e.course_id = course_id}

\* Handler o answers in this step.
Answers(o) == op[o].pc # "responded" /\ op'[o].pc = "responded"

(***************************************************************************)
(* C28: there is at most one row of user_course_enrollments per            *)
(* (user_id, course_id); a createUserEnrollment that reaches its INSERT    *)
(* when the pair already has a row (a concurrent request inserted it after *)
(* both passed the existence check) answers with an error and adds no row, *)
(* one that finds no row and no missing reference answers 201 and adds     *)
(* one, and a request answered 400 by validation or by an existence check  *)
(* leaves the database as it was.                                          *)
(***************************************************************************)
C28_OneRowPerPair ==
    /\ [](\A e1, e2 \in db.user_course_enrollments :
            (e1.user_id = e2.user_id /\ e1.course_id = e2.course_id)
                => e1 = e2)
    /\ [][\A o \in Ops :
            Answers(o) =>
                /\ (op[o].pc = "insert"
                    /\ UniqueViolation(op[o].user_id, op[o].course_id))
                        => /\ op'[o].code = 500
                           /\ db'.user_course_enrollments
                                = db.user_course_enrollments
                /\ op'[o].code = 201
                        => /\ op[o].pc = "insert"
                           /\ RowsOf(op[o].user_id, op[o].course_id) = {}
                           /\ Cardinality(db'.user_course_enrollments)
                                = Cardinality(db.user_course_enrollments) + 1
                /\ op'[o].code = 400 => db' = db]_vars

\* Two requests for the same pair have both reached the INSERT: one was
\* answered 201, the other 500, and the pair has the one row.  User and
\* course still exist, so the 500 is the UNIQUE constraint's.
C28_Witness ==
    /\ op[1].pc = "responded" /\ op[2].pc = "responded"
    /\ op[1].code = 201 /\ op[2].code = 500
    /\ op[1].user_id = op[2].user_id /\ op[1].course_id = op[2].course_id
    /\ op[1].user_id \in db.users /\ op[1].course_id \in db.courses
    /\ Cardinality(RowsOf(op[1].user_id, op[1].course_id)) = 1
    /\ db.user_course_enrollments_id_seq = 2

(***************************************************************************)
(* C29: no two existing series of a course carry the same episode number.  *)
(***************************************************************************)
C29_EpisodeNumbersUnique ==
    \A s1, s2 \in db.series :
        (s1.course_id = s2.course_id /\ s1.ep = s2.ep) => s1 = s2

(***************************************************************************)
(* C30: every row of user_course_enrollments references a user and a       *)
(* course that exist, in every state the creations and deletions of users, *)
(* courses and enrollments reach, whatever their interleaving; so a        *)
(* deleted user or course has no enrollment left.                          *)
(***************************************************************************)
C30_ReferentialIntegrity ==
    /\ [](\A e \in db.user_course_enrollments :
            e.user_id \in db.users /\ e.course_id \in db.courses)
    /\ [][/\ \A id \in UserIDs :
                (id \in db.users /\ id \notin db'.users)
                    => \A e \in db'.user_course_enrollments : e.user_id # id
          /\ \A id \in CourseIDs :
                (id \in db.courses /\ id \notin db'.courses)
                    => \A e \in db'.user_course_enrollments :
                            e.course_id # id]_vars

\* A createUserEnrollment whose user was deleted after the existence checks
\* was answered 500 by the only INSERT there has been: no row was ever
\* there, so the foreign key refused it, and no row is left behind.
C30_Witness ==
    /\ \E o \in Ops :
        /\ op[o].pc = "responded" /\ op[o].code = 500
        /\ op[o].user_id \notin db.users
        /\ op[o].course_id \in db.courses
    /\ db.user_course_enrollments_id_seq = 1
    /\ db.user_course_enrollments = {}

=============================================================================
